---- MODULE Spec2Model ----
(***************************************************************************)
(* A model of the hybrid matching engine of the KLH team-project matching  *)
(* platform (backend/app): the two persisted FAISS indices and the         *)
(* handlers that append to them (services/embedding_service.py), the       *)
(* scoring and ranking of teams (services/matching_service.py) and the     *)
(* persistence of score records (routes/hr.py).                            *)
(*                                                                         *)
(* Scheduling.  FastAPI awaits an `async def` endpoint on the event loop;  *)
(* none of the async endpoints modelled here awaits anything in its body,  *)
(* so they run one at a time: process Loop.  A plain `def` endpoint        *)
(* (signup, register_employee, register_teamlead) runs on a worker thread  *)
(* of the thread pool: processes Threads.  A handler is cut into steps at  *)
(* its accesses to shared storage (the index files and the database).      *)
(*                                                                         *)
(* Numbers.  Vectors are fixed-point, VecScale units to 1.0; scores are    *)
(* integers in units of 1/ScoreScale, i.e. the 4 decimals of round(x, 4).  *)
(***************************************************************************)
EXTENDS Integers, Sequences, FiniteSets, TLC

\* ------------------------------------------------------------- bounds
MaxEmployees == 2   \* rows of the employees table
MaxProjects == 2    \* rows of the projects table
MaxTeams == 2       \* rows of the teams table
MaxAdds == 3        \* update_*_vector calls started in one behaviour
MaxSequentialAdds == 2  \* the same, in a behaviour of the sequential specification
MaxSaves == 2       \* save_evaluation calls in one behaviour
NumThreads == 2     \* worker threads of the thread pool

\* --------------------------------------------------- program constants
EMBEDDING_DIM == 2  \* 384 in the source; the model keeps 2 components
VecScale == 1000    \* fixed-point unit of a vector component
EMPLOYEE_INDEX_PATH == "faiss_employee.index"
PROJECT_INDEX_PATH == "faiss_project.index"
IndexPaths == {EMPLOYEE_INDEX_PATH, PROJECT_INDEX_PATH}

\* Python's None and Optional[int]: <<>> is None, <<n>> is the integer n.
NONE == <<>>
Some(n) == <<n>>
IsNone(x) == x = <<>>
Val(x) == x[1]

Loop == 0
Threads == 1..NumThreads
Procs == {Loop} \cup Threads

\* ------------------------------------------------------- sequences
RECURSIVE SumSeq(_)
SumSeq(s) == IF s = <<>> THEN 0 ELSE Head(s) + SumSeq(Tail(s))

Range(s) == {s[i] : i \in 1..Len(s)}

SetMax(S) == CHOOSE m \in S : \A x \in S : x <= m

\* ------------------------------------------------------- arithmetic
RoundDiv(a, b) ==
  IF a >= 0 THEN (2 * a + b) \div (2 * b) ELSE -((2 * (-a) + b) \div (2 * b))

RECURSIVE SqrtSearch(_, _, _)
SqrtSearch(n, lo, hi) ==
  IF lo >= hi THEN lo
  ELSE LET mid == (lo + hi + 1) \div 2
       IN IF mid * mid <= n THEN SqrtSearch(n, mid, hi) ELSE SqrtSearch(n, lo, mid - 1)

\* np.linalg.norm on one row: the root of the sum of squares (rounded to nearest)
ISqrt(n) ==
  LET r == SqrtSearch(n, 0, 46340)
  IN IF n - r * r > r THEN r + 1 ELSE r

\* ------------------------------------------------------- vectors
Axes == 1..EMBEDDING_DIM
ZeroVec == [i \in Axes |-> 0]      \* np.zeros((1, EMBEDDING_DIM))
SumSq(v) == SumSeq([i \in Axes |-> v[i] * v[i]])
Norm(v) == ISqrt(SumSq(v))

\* _normalize: vec / norm, with norm 0 replaced by 1e-10 (0 / 1e-10 is 0)
normalize(vec) ==
  LET norms == Norm(vec)
  IN IF norms = 0 THEN [i \in Axes |-> 0]
     ELSE [i \in Axes |-> RoundDiv(vec[i] * VecScale, norms)]

\* ------------------------------------------------------- strings
Skills == {"Python", "python", "React", "java"}
lower(s) == CASE s = "Python" -> "python" [] s = "React" -> "react" [] OTHER -> s

StrCode(s) ==
  CASE s = "Python" -> 1 [] s = "python" -> 2 [] s = "React" -> 3 [] s = "java" -> 4
    [] s = "Asha" -> 5 [] s = "Ravi" -> 6 [] s = "Portal" -> 7 [] s = "Ledger" -> 8
    [] OTHER -> 0

\* SentenceTransformer.encode: a fixed function of the text, here of its tokens.
\* Component i of a token is in -2..2; a text is the sum of its tokens.
TokenFeature(tok, i) == (((tok * (i + 1) + i) % 5) - 2) * VecScale
encode(text) == [i \in Axes |-> SumSeq([k \in 1..Len(text) |-> TokenFeature(text[k], i)])]

employee_to_text(employee) ==
  <<StrCode(employee.name)>> \o [k \in 1..Len(employee.skills) |-> StrCode(employee.skills[k])]
    \o <<employee.experience>>

project_to_text(project) ==
  <<StrCode(project.title)>>
    \o [k \in 1..Len(project.required_skills) |-> StrCode(project.required_skills[k])]
    \o <<project.required_experience>>

generate_employee_embedding(employee) == normalize(encode(employee_to_text(employee)))
generate_project_embedding(project) == normalize(encode(project_to_text(project)))

\* --------------------------------------------------------- state
VARIABLES
  faiss_available,  \* FAISS_AVAILABLE: whether `import faiss` succeeded
  imported,         \* whether `import app.services.embedding_service` succeeded
  index_file,       \* path -> the rows of the index file on disk (no file: no rows)
  employees,        \* table employees: id -> row
  projects,         \* table projects: id -> row
  teams,            \* table teams: team_id -> row
  applications,     \* table applications: the rows, in insertion order
  proc,             \* process -> where it is in its handler, and the handler's locals
  adds,             \* update_*_vector calls started so far
  model,            \* _model is not None: a SentenceTransformer was built and assigned
  returned,         \* path -> the row ids returned by update_*_vector, in order of return
  last_get,         \* the get_*_vector call in progress: its argument and its result
  evaluations       \* the save_evaluation calls so far and, of the last one, its project,
                    \* what it saved, and the teams whose record held another score before;
                    \* abandoned: the results the last call had handled in its session
                    \* when it ended before db.commit() (0 when it returned)

vars == <<faiss_available, imported, index_file, employees, projects, teams, applications,
          proc, adds, model, returned, last_get, evaluations>>

db == <<employees, projects, teams, applications>>

\* what is fixed when the application starts
env == <<faiss_available, imported>>

NoEvaluation == [calls |-> 0, project_id |-> 0, saved |-> <<>>, rescored |-> {}, abandoned |-> 0]
NoGet == [arg |-> NONE, result |-> <<>>]
IdleProc == [pc |-> "idle", path |-> "", id |-> 0, index |-> <<>>, row_idx |-> 0,
             request |-> <<>>]

\* INTEGER PRIMARY KEY of SQLite: one more than the largest id of the table
NewId(table) == IF DOMAIN table = {} THEN 1 ELSE SetMax(DOMAIN table) + 1

Insert(table, id, row) ==
  [i \in DOMAIN table \cup {id} |-> IF i = id THEN row ELSE table[i]]

Delete(table, id) == [i \in DOMAIN table \ {id} |-> table[i]]

\* The module's import.  `def _load_or_create_index(path) -> faiss.IndexFlatIP`
\* and `def _save_index(index: faiss.IndexFlatIP, path)` name faiss in their
\* annotations.  An interpreter that evaluates annotations at the definition
\* (CPython before 3.14) raises NameError there when `import faiss` has failed,
\* and main.py, whose routes import the module, does not start; one that defers
\* them (3.14 on) imports the module.
import_embedding_service == IF faiss_available THEN {TRUE} ELSE BOOLEAN

\* a request reaches a handler of a process that started and is not in one
Ready(p) == imported /\ proc[p].pc = "idle"

Init ==
  /\ faiss_available \in BOOLEAN
  /\ imported \in import_embedding_service
  /\ index_file = [path \in IndexPaths |-> <<>>]
  /\ employees = <<>>
  /\ projects = <<>>
  /\ teams = <<>>
  /\ applications = <<>>
  /\ proc = [p \in Procs |-> IdleProc]
  /\ adds = 0
  /\ model = FALSE
  /\ returned = [path \in IndexPaths |-> <<>>]
  /\ last_get = NoGet
  /\ evaluations = NoEvaluation

\* ----------------------------------------------- the index on disk
\* _load_or_create_index: DummyIndex (ntotal 0) without faiss, else the file's
\* rows, else a fresh IndexFlatIP
load_or_create_index(path) == IF ~faiss_available THEN <<>> ELSE index_file[path]

\* _save_index with the employee path written in place of its argument
save_index_employee_path(index, path) ==
  IF faiss_available THEN [index_file EXCEPT ![EMPLOYEE_INDEX_PATH] = index] ELSE index_file

\* _save_index: faiss.write_index replaces the file by the rows held in memory
save_index(index, path) ==
  IF faiss_available THEN [index_file EXCEPT ![path] = index] ELSE index_file

\* ntotal read after the append instead of before it
ntotal_after_add(index) == Len(index) + 1

\* row_idx = index.ntotal
ntotal(index) == Len(index)

\* the table an index path belongs to, and the row of an entity
Entity(path, id) == IF path = EMPLOYEE_INDEX_PATH THEN employees[id] ELSE projects[id]
Exists(path, id) ==
  IF path = EMPLOYEE_INDEX_PATH THEN id \in DOMAIN employees ELSE id \in DOMAIN projects
Embedding(path, id) ==
  IF path = EMPLOYEE_INDEX_PATH THEN generate_employee_embedding(employees[id])
  ELSE generate_project_embedding(projects[id])

\* employee.embedding_index = row_idx / project.embedding_reference = row_idx; db.commit()
SetReference(path, id, row_idx) ==
  IF path = EMPLOYEE_INDEX_PATH
  THEN /\ employees' = [employees EXCEPT ![id].embedding_index = Some(row_idx)]
       /\ UNCHANGED projects
  ELSE /\ projects' = [projects EXCEPT ![id].embedding_reference = Some(row_idx)]
       /\ UNCHANGED employees

\* ------------------------- update_employee_vector / update_project_vector
\* From generate_*_embedding to index.add(vec), on the index loaded before:
\* without faiss the reference is set to 0 and 0 is returned.
add_vector(p, index) ==
  LET path == proc[p].path
      id == proc[p].id
  IN IF ~faiss_available
     THEN /\ SetReference(path, id, 0)
          /\ returned' = [returned EXCEPT ![path] = Append(@, 0)]
          /\ proc' = [proc EXCEPT ![p] = IdleProc]
     ELSE /\ proc' = [proc EXCEPT ![p].pc = "save",
                                  ![p].row_idx = ntotal(index),
                                  ![p].index = Append(index, Embedding(path, id))]
          /\ UNCHANGED <<employees, projects, returned>>

\* Up to index.add(vec): the query of the entity, the load of the index, and
\* _get_model's test `_model is None`.  When it finds no model the caller goes
\* on to build one (get_model); else it embeds and adds at once.
update_vector_load(p) ==
  /\ proc[p].pc = "load"
  /\ IF ~Exists(proc[p].path, proc[p].id)
     THEN \* raise ValueError("... not found")
          /\ proc' = [proc EXCEPT ![p] = IdleProc]
          /\ UNCHANGED <<employees, projects, returned>>
     ELSE IF ~model
     THEN /\ proc' = [proc EXCEPT ![p].pc = "model",
                                  ![p].index = load_or_create_index(proc[p].path)]
          /\ UNCHANGED <<employees, projects, returned>>
     ELSE add_vector(p, load_or_create_index(proc[p].path))
  /\ UNCHANGED <<env, model, index_file, teams, applications, adds, last_get, evaluations>>

\* _get_model after its test found no model:
\* _model = SentenceTransformer("all-MiniLM-L6-v2"), then the embedding and
\* index.add(vec)
get_model(p) ==
  /\ proc[p].pc = "model"
  /\ model' = TRUE
  /\ add_vector(p, proc[p].index)
  /\ UNCHANGED <<env, index_file, teams, applications, adds, last_get, evaluations>>

\* _save_index(index, path)
update_vector_save(p) ==
  /\ proc[p].pc = "save"
  /\ index_file' = save_index(proc[p].index, proc[p].path)
  /\ proc' = [proc EXCEPT ![p].pc = "commit"]
  /\ UNCHANGED <<env, model, db, adds, returned, last_get, evaluations>>

\* the reference is set and committed, and row_idx returned
update_vector_commit(p) ==
  /\ proc[p].pc = "commit"
  /\ IF Exists(proc[p].path, proc[p].id)
     THEN /\ SetReference(proc[p].path, proc[p].id, proc[p].row_idx)
          /\ returned' = [returned EXCEPT ![proc[p].path] = Append(@, proc[p].row_idx)]
     ELSE \* the row is gone: the UPDATE matches nothing and commit raises
          UNCHANGED <<employees, projects, returned>>
  /\ proc' = [proc EXCEPT ![p] = IdleProc]
  /\ UNCHANGED <<env, model, index_file, teams, applications, adds, last_get, evaluations>>

\* a handler has committed its own change and calls update_*_vector(id, db);
\* request is <<the payload>> in a handler that updates the entity, else <<>>
StartAdd(p, path, id, request) ==
  /\ adds < MaxAdds
  /\ adds' = adds + 1
  /\ proc' = [proc EXCEPT ![p] = [IdleProc EXCEPT !.pc = "load", !.path = path, !.id = id,
                                                   !.request = request]]

CallUpdateVector(p, path, id) == StartAdd(p, path, id, <<>>)

\* ------------------------------------------------ request payloads
Names == {"Asha", "Ravi"}
Titles == {"Portal", "Ledger"}
TeamCodes == {"ALPHA01", "BETA02"}
TeamIds == 1..MaxTeams

\* schemas.EmployeeCreate
EmployeeCreate(names, skill_lists, experiences, team_ids) ==
  [name : names, skills : skill_lists, experience : experiences, team_id : team_ids]

\* schemas.ProjectCreate (required_experience: ge=0)
ProjectCreate(titles, skill_lists, experiences) ==
  [title : titles, required_skills : skill_lists, required_experience : experiences]

\* --------------------------------------- handlers on worker threads
\* routes/employee.py signup
signup(t, payload) ==
  /\ Ready(t)
  /\ Cardinality(DOMAIN employees) < MaxEmployees
  /\ LET id == NewId(employees)
     IN /\ employees' = Insert(employees, id,
                          [name |-> payload.name, skills |-> payload.skills,
                           experience |-> payload.experience, team_id |-> payload.team_id,
                           embedding_index |-> NONE])
        /\ CallUpdateVector(t, EMPLOYEE_INDEX_PATH, id)
  /\ UNCHANGED <<env, model, index_file, projects, teams, applications,
                 returned, last_get, evaluations>>

\* routes/register.py register_teamlead: the team, its lead, team.team_lead_id
register_teamlead(t, lead_name, team_code) ==
  /\ Ready(t)
  /\ Cardinality(DOMAIN employees) < MaxEmployees
  /\ Cardinality(DOMAIN teams) < MaxTeams
  /\ \A i \in DOMAIN teams : teams[i].team_code # Some(team_code)
  /\ LET team_id == NewId(teams)
         id == NewId(employees)
     IN /\ teams' = Insert(teams, team_id, [team_code |-> Some(team_code), team_lead_id |-> Some(id)])
        /\ employees' = Insert(employees, id,
                          [name |-> lead_name, skills |-> <<>>, experience |-> 0,
                           team_id |-> Some(team_id), embedding_index |-> NONE])
        /\ CallUpdateVector(t, EMPLOYEE_INDEX_PATH, id)
  /\ UNCHANGED <<env, model, index_file, projects, applications,
                 returned, last_get, evaluations>>

\* routes/register.py register_employee: joins the team that has the team code
register_employee(t, name, team_code) ==
  /\ Ready(t)
  /\ Cardinality(DOMAIN employees) < MaxEmployees
  /\ \E team_id \in DOMAIN teams :
       /\ teams[team_id].team_code = Some(team_code)
       /\ LET id == NewId(employees)
          IN /\ employees' = Insert(employees, id,
                               [name |-> name, skills |-> <<>>, experience |-> 0,
                                team_id |-> Some(team_id), embedding_index |-> NONE])
             /\ CallUpdateVector(t, EMPLOYEE_INDEX_PATH, id)
  /\ UNCHANGED <<env, model, index_file, projects, teams, applications,
                 returned, last_get, evaluations>>

\* --------------------------------------- handlers on the event loop
\* routes/employee.py update_embedding
update_embedding(current) ==
  /\ Ready(Loop)
  /\ current \in DOMAIN employees
  /\ CallUpdateVector(Loop, EMPLOYEE_INDEX_PATH, current)
  /\ UNCHANGED <<env, model, index_file, db, returned, last_get, evaluations>>

\* routes/employee.py update_me.  `current` comes from get_current_employee,
\* which loads it in the session of Depends(get_db); `db` is the session of
\* Depends(get_db_for_hr).  The setattr calls change an object of the first
\* session, so db.commit() writes nothing ...
update_me(current, payload) ==
  /\ Ready(Loop)
  /\ current \in DOMAIN employees
  /\ proc' = [proc EXCEPT ![Loop] =
                [IdleProc EXCEPT !.pc = "refresh", !.path = EMPLOYEE_INDEX_PATH,
                                 !.id = current, !.request = <<payload>>]]
  /\ UNCHANGED <<env, model, index_file, db, adds, returned, last_get, evaluations>>

\* ... and db.refresh(current) raises InvalidRequestError (the instance is not
\* persistent within this session): the handler ends before
\* update_employee_vector, and the first session is closed uncommitted.
update_me_refresh ==
  /\ proc[Loop].pc = "refresh"
  /\ proc' = [proc EXCEPT ![Loop] = IdleProc]
  /\ UNCHANGED <<env, model, index_file, db, adds, returned, last_get, evaluations>>

\* routes/team.py create_team: team_code is not taken from the payload
create_team_within(limit, team_lead_id) ==
  /\ Ready(Loop)
  /\ Cardinality(DOMAIN teams) < limit
  /\ teams' = Insert(teams, NewId(teams), [team_code |-> NONE, team_lead_id |-> team_lead_id])
  /\ UNCHANGED <<env, model, index_file, employees, projects, applications,
                 proc, adds, returned, last_get, evaluations>>

create_team(team_lead_id) == create_team_within(MaxTeams, team_lead_id)

\* routes/project.py create_project
create_project(payload) ==
  /\ Ready(Loop)
  /\ Cardinality(DOMAIN projects) < MaxProjects
  /\ LET id == NewId(projects)
     IN /\ projects' = Insert(projects, id,
                         [title |-> payload.title, required_skills |-> payload.required_skills,
                          required_experience |-> payload.required_experience,
                          embedding_reference |-> NONE])
        /\ CallUpdateVector(Loop, PROJECT_INDEX_PATH, id)
  /\ UNCHANGED <<env, model, index_file, employees, teams, applications,
                 returned, last_get, evaluations>>

\* routes/project.py update_project
update_project(project_id, payload) ==
  /\ Ready(Loop)
  /\ project_id \in DOMAIN projects
  /\ projects' = [projects EXCEPT ![project_id] =
                    [title |-> payload.title, required_skills |-> payload.required_skills,
                     required_experience |-> payload.required_experience,
                     embedding_reference |-> @.embedding_reference]]
  /\ StartAdd(Loop, PROJECT_INDEX_PATH, project_id, <<payload>>)
  /\ UNCHANGED <<env, model, index_file, employees, teams, applications,
                 returned, last_get, evaluations>>

\* routes/project.py delete_project: the row goes, its index row stays.  The
\* relationship Project.applications has no cascade, so the delete would null
\* applications.project_id (nullable=False): with applications it raises.
delete_project(project_id) ==
  /\ Ready(Loop)
  /\ project_id \in DOMAIN projects
  /\ \A k \in 1..Len(applications) : applications[k].project_id # project_id
  /\ projects' = Delete(projects, project_id)
  /\ UNCHANGED <<env, model, index_file, employees, teams, applications,
                 proc, adds, returned, last_get, evaluations>>

\* routes/project.py embed_project
embed_project(project_id) ==
  /\ Ready(Loop)
  /\ project_id \in DOMAIN projects
  /\ CallUpdateVector(Loop, PROJECT_INDEX_PATH, project_id)
  /\ UNCHANGED <<env, model, index_file, db, returned, last_get, evaluations>>

\* ------------------------------ get_employee_vector / get_project_vector
\* What index.reconstruct(key) reads for a key below 0: IndexFlat checks
\* key < ntotal only, so it copies memory from before the buffer (any floats).
OutOfBoundsReads == {ZeroVec, [i \in Axes |-> VecScale]}

\* The possible results on a loaded index: <<>> is None, <<v>> the vector v.
get_vector_results(index, arg) ==
  IF ~faiss_available THEN {<<ZeroVec>>}
  ELSE IF IsNone(arg) \/ Val(arg) >= ntotal(index) THEN {<<>>}
  ELSE IF Val(arg) < 0 THEN {<<g>> : g \in OutOfBoundsReads}
  ELSE {<<index[Val(arg) + 1]>>}

\* the call as the scorer makes it, with a reference stored by update_*_vector
get_employee_vector(embedding_index) ==
  CHOOSE r \in get_vector_results(load_or_create_index(EMPLOYEE_INDEX_PATH), embedding_index) : TRUE

get_project_vector(embedding_reference) ==
  CHOOSE r \in get_vector_results(load_or_create_index(PROJECT_INDEX_PATH), embedding_reference) : TRUE

\* a caller on the event loop (top_projects, rank_teams) loads the index ...
get_vector_load(path, arg) ==
  /\ Ready(Loop)
  /\ proc' = [proc EXCEPT ![Loop] =
                [IdleProc EXCEPT !.pc = "get", !.path = path,
                                 !.index = load_or_create_index(path)]]
  /\ last_get' = [arg |-> arg, result |-> <<>>]
  /\ UNCHANGED <<env, model, index_file, db, adds, returned, evaluations>>

\* ... takes the row (key < 0: whatever lies before the buffer) ...
get_vector_reconstruct ==
  /\ proc[Loop].pc = "get"
  /\ \E r \in get_vector_results(proc[Loop].index, last_get.arg) :
       last_get' = [last_get EXCEPT !.result = r]
  /\ proc' = [proc EXCEPT ![Loop].pc = "got"]
  /\ UNCHANGED <<env, model, index_file, db, adds, returned, evaluations>>

\* ... and its caller goes on with the result
get_vector_return ==
  /\ proc[Loop].pc = "got"
  /\ last_get' = NoGet
  /\ proc' = [proc EXCEPT ![Loop] = IdleProc]
  /\ UNCHANGED <<env, model, index_file, db, adds, returned, evaluations>>

\* the process dies (kill, power loss, a segfault): memory is lost, the files
\* and the committed rows stay
Crash ==
  /\ \E p \in Procs : proc[p].pc # "idle"
  /\ proc' = [p \in Procs |-> IdleProc]
  /\ last_get' = NoGet
  /\ model' = FALSE
  /\ UNCHANGED <<env, index_file, db, adds, returned, evaluations>>

\* --------------------------------------------- matching_service.py
Micro == 1000000     \* a float in [0, 1] is kept in millionths
ScoreScale == 10000  \* round(x, 4): ten-thousandths

round4(x) == RoundDiv(x, Micro \div ScoreScale)

RECURSIVE SortedSeq(_)
SortedSeq(S) ==
  IF S = {} THEN <<>>
  ELSE LET m == CHOOSE x \in S : \A y \in S : x <= y IN <<m>> \o SortedSeq(S \ {m})

RECURSIVE Concat(_)
Concat(ss) == IF ss = <<>> THEN <<>> ELSE Head(ss) \o Concat(Tail(ss))

\* team.members: the employees whose team_id is the team's, by id
Members(team_id) ==
  SortedSeq({id \in DOMAIN employees : employees[id].team_id = Some(team_id)})

\* _skill_coverage comparing the skills as they are written
skill_coverage_case_sensitive(required, team_skills) ==
  IF required = <<>> THEN Micro
  ELSE RoundDiv(Cardinality(Range(required) \cap Range(team_skills)) * Micro,
                Cardinality(Range(required)))

skill_coverage(required, team_skills) ==
  IF required = <<>> THEN Micro
  ELSE LET required_lower == {lower(x) : x \in Range(required)}
           team_lower == {lower(x) : x \in Range(team_skills)}
           covered == required_lower \cap team_lower
       IN RoundDiv(Cardinality(covered) * Micro, Cardinality(required_lower))

\* _experience_match without the cap of min(., 1.0)
experience_match_uncapped(avg_experience, required) ==
  IF required <= 0 THEN Micro ELSE RoundDiv(avg_experience, required)

\* avg_experience in millionths of a year, required in years
experience_match(avg_experience, required) ==
  IF required <= 0 THEN Micro
  ELSE LET ratio == RoundDiv(avg_experience, required)
       IN IF ratio < Micro THEN ratio ELSE Micro

\* _team_balance counting the distinct skills member by member
team_balance_per_member(members) ==
  IF members = <<>> THEN Micro \div 2
  ELSE LET mentions == SumSeq([k \in 1..Len(members) |-> Len(employees[members[k]].skills)])
           unique == SumSeq([k \in 1..Len(members) |->
                      Cardinality({lower(x) : x \in Range(employees[members[k]].skills)})])
       IN IF mentions = 0 THEN Micro \div 2 ELSE RoundDiv(unique * Micro, mentions)

team_balance(members) ==
  IF members = <<>> THEN Micro \div 2
  ELSE LET all_skills ==
             Concat([k \in 1..Len(members) |->
                       [j \in 1..Len(employees[members[k]].skills) |->
                          lower(employees[members[k]].skills[j])]])
       IN IF all_skills = <<>> THEN Micro \div 2
          ELSE LET unique_ratio ==
                     RoundDiv(Cardinality(Range(all_skills)) * Micro, Len(all_skills))
               IN IF unique_ratio < Micro THEN unique_ratio ELSE Micro

\* embedding_service.compute_cosine_similarity: both normalised again, then the
\* dot product (VecScale * VecScale = Micro)
compute_cosine_similarity(vec_a, vec_b) ==
  LET a == normalize(vec_a)
      b == normalize(vec_b)
  IN SumSeq([i \in Axes |-> a[i] * b[i]])

\* embedding_service.get_team_embedding; weights 1.5 and 1.0 are 3 and 2 halves
LeadWeight2 == 3
MemberWeight2 == 2

\* get_team_embedding with a zero vector in place of a vector that is missing
\* (substitution: the member still counts in the total weight)
get_team_embedding_substituting(team_id) ==
  IF team_id \notin DOMAIN teams \/ Members(team_id) = <<>> THEN <<>>
  ELSE LET members == Members(team_id)
           weight2(m) == IF Some(m) = teams[team_id].team_lead_id
                         THEN LeadWeight2 ELSE MemberWeight2
           vec(m) == IF \/ IsNone(employees[m].embedding_index)
                        \/ get_employee_vector(employees[m].embedding_index) = <<>>
                     THEN ZeroVec
                     ELSE get_employee_vector(employees[m].embedding_index)[1]
           weighted_sum ==
             [i \in Axes |-> SumSeq([k \in 1..Len(members) |-> weight2(members[k]) * vec(members[k])[i]])]
           total_weight == SumSeq([k \in 1..Len(members) |-> weight2(members[k])])
       IN <<normalize([i \in Axes |-> RoundDiv(weighted_sum[i], total_weight)])>>

get_team_embedding(team_id) ==
  IF team_id \notin DOMAIN teams \/ Members(team_id) = <<>> THEN <<>>
  ELSE LET members == Members(team_id)
           usable == SelectSeq(members, LAMBDA m :
                       /\ ~IsNone(employees[m].embedding_index)
                       /\ get_employee_vector(employees[m].embedding_index) # <<>>)
           weight2(m) == IF Some(m) = teams[team_id].team_lead_id
                         THEN LeadWeight2 ELSE MemberWeight2
           vec(m) == get_employee_vector(employees[m].embedding_index)[1]
           weighted_sum ==
             [i \in Axes |-> SumSeq([k \in 1..Len(usable) |-> weight2(usable[k]) * vec(usable[k])[i]])]
           total_weight == SumSeq([k \in 1..Len(usable) |-> weight2(usable[k])])
       IN IF total_weight = 0 THEN <<>>
          ELSE <<normalize([i \in Axes |-> RoundDiv(weighted_sum[i], total_weight)])>>

\* _embedding_similarity without its three early returns: a missing vector
\* counts as a perfect match
embedding_similarity_unguarded(team_id, project) ==
  IF IsNone(project.embedding_reference) THEN Micro
  ELSE LET team_vec == get_team_embedding(team_id)
           proj_vec == get_project_vector(project.embedding_reference)
       IN IF team_vec = <<>> \/ proj_vec = <<>> THEN Micro
          ELSE compute_cosine_similarity(team_vec[1], proj_vec[1])

embedding_similarity(team_id, project) ==
  IF IsNone(project.embedding_reference) THEN 0
  ELSE LET team_vec == get_team_embedding(team_id)
       IN IF team_vec = <<>> THEN 0
          ELSE LET proj_vec == get_project_vector(project.embedding_reference)
               IN IF proj_vec = <<>> THEN 0
                  ELSE compute_cosine_similarity(team_vec[1], proj_vec[1])

\* the weights of the final score, in tenths
W_EMBEDDING == 4
W_SKILL == 3
W_EXPERIENCE == 2
W_BALANCE == 1

\* calculate_team_score with the final score computed from the rounded components
calculate_team_score_rounded_first(team_id, project_id) ==
  IF team_id \notin DOMAIN teams \/ project_id \notin DOMAIN projects THEN <<>>
  ELSE LET project == projects[project_id]
           members == Members(team_id)
           team_skills == Concat([k \in 1..Len(members) |-> employees[members[k]].skills])
           avg_exp == IF members # <<>>
                      THEN RoundDiv(SumSeq([k \in 1..Len(members) |->
                                              employees[members[k]].experience]) * Micro,
                                    Len(members))
                      ELSE 0
           emb_sim == embedding_similarity(team_id, project)
           skill_cov == skill_coverage(project.required_skills, team_skills)
           exp_match == experience_match(avg_exp, project.required_experience)
           t_balance == team_balance(members)
           final == RoundDiv((W_EMBEDDING * round4(emb_sim) + W_SKILL * round4(skill_cov)
                              + W_EXPERIENCE * round4(exp_match) + W_BALANCE * round4(t_balance))
                               * (Micro \div ScoreScale), 10)
       IN <<[team_id |-> team_id, project_id |-> project_id,
             final_score |-> round4(final),
             embedding_similarity |-> round4(emb_sim),
             skill_coverage |-> round4(skill_cov),
             experience_match |-> round4(exp_match),
             team_balance |-> round4(t_balance)]>>

\* <<>> when it raises ValueError, else <<the dict of rounded scores>>
calculate_team_score(team_id, project_id) ==
  IF team_id \notin DOMAIN teams \/ project_id \notin DOMAIN projects THEN <<>>
  ELSE LET project == projects[project_id]
           members == Members(team_id)
           team_skills == Concat([k \in 1..Len(members) |-> employees[members[k]].skills])
           avg_exp == IF members # <<>>
                      THEN RoundDiv(SumSeq([k \in 1..Len(members) |->
                                              employees[members[k]].experience]) * Micro,
                                    Len(members))
                      ELSE 0
           emb_sim == embedding_similarity(team_id, project)
           skill_cov == skill_coverage(project.required_skills, team_skills)
           exp_match == experience_match(avg_exp, project.required_experience)
           t_balance == team_balance(members)
           final == RoundDiv(W_EMBEDDING * emb_sim + W_SKILL * skill_cov
                             + W_EXPERIENCE * exp_match + W_BALANCE * t_balance, 10)
       IN <<[team_id |-> team_id, project_id |-> project_id,
             final_score |-> round4(final),
             embedding_similarity |-> round4(emb_sim),
             skill_coverage |-> round4(skill_cov),
             experience_match |-> round4(exp_match),
             team_balance |-> round4(t_balance)]>>

\* a descending sort that puts a record before the records of equal score
RECURSIVE InsertDesc_unstable(_, _)
InsertDesc_unstable(sorted, r) ==
  IF sorted = <<>> THEN <<r>>
  ELSE IF Head(sorted).final_score > r.final_score
       THEN <<Head(sorted)>> \o InsertDesc_unstable(Tail(sorted), r)
       ELSE <<r>> \o sorted

\* list.sort(key=final_score, reverse=True): stable, descending
RECURSIVE InsertDesc(_, _)
InsertDesc(sorted, r) ==
  IF sorted = <<>> THEN <<r>>
  ELSE IF Head(sorted).final_score >= r.final_score
       THEN <<Head(sorted)>> \o InsertDesc(Tail(sorted), r)
       ELSE <<r>> \o sorted

RECURSIVE SortDesc(_)
SortDesc(results) ==
  IF results = <<>> THEN <<>>
  ELSE InsertDesc(SortDesc(SubSeq(results, 1, Len(results) - 1)), results[Len(results)])

\* rank_teams without the `continue`: a team whose scoring raised stays in the
\* list, with zero scores (used to test the properties of rank_teams)
rank_teams_keep_raising(project_id) ==
  LET all_teams == SortedSeq(DOMAIN teams)
      zero(team_id) == [team_id |-> team_id, project_id |-> project_id, final_score |-> 0,
                        embedding_similarity |-> 0, skill_coverage |-> 0,
                        experience_match |-> 0, team_balance |-> 0]
  IN SortDesc([k \in 1..Len(all_teams) |->
                 IF calculate_team_score(all_teams[k], project_id) = <<>>
                 THEN zero(all_teams[k])
                 ELSE calculate_team_score(all_teams[k], project_id)[1]])

rank_teams(project_id) ==
  LET all_teams == SortedSeq(DOMAIN teams)
      results == Concat([k \in 1..Len(all_teams) |-> calculate_team_score(all_teams[k], project_id)])
  IN SortDesc(results)

\* the query of save_evaluation finding no row, whatever the table holds
find_existing_none(apps, project_id, team_id) == 0

\* the query of save_evaluation filtering on the team only
find_existing_by_team(apps, project_id, team_id) ==
  LET hits == {k \in 1..Len(apps) : apps[k].team_id = team_id}
  IN IF hits = {} THEN 0 ELSE CHOOSE k \in hits : \A j \in hits : k <= j

\* ------------------------------------------ routes/hr.py save_evaluation
\* db.query(Application).filter(project_id, team_id).first(): the position of
\* the first committed row of the pair, 0 for None
find_existing(apps, project_id, team_id) ==
  LET hits == {k \in 1..Len(apps) :
                 apps[k].project_id = project_id /\ apps[k].team_id = team_id}
  IN IF hits = {} THEN 0 ELSE CHOOSE k \in hits : \A j \in hits : k <= j

\* The loop over results.  The session has autoflush off, so every query sees
\* the rows committed before the call (committed); rows added by db.add are
\* pending and become rows at db.commit().
\* the loop of save_evaluation leaving an existing row as it is
RECURSIVE upsert_results_keep(_, _, _, _)
upsert_results_keep(committed, apps, project_id, results) ==
  IF results = <<>> THEN apps
  ELSE LET r == Head(results)
           existing == find_existing(committed, project_id, r.team_id)
           next == IF existing # 0
                   THEN apps
                   ELSE Append(apps, [project_id |-> project_id, team_id |-> r.team_id,
                                      score |-> r.final_score])
       IN upsert_results_keep(committed, next, project_id, Tail(results))

RECURSIVE upsert_results(_, _, _, _)
upsert_results(committed, apps, project_id, results) ==
  IF results = <<>> THEN apps
  ELSE LET r == Head(results)
           existing == find_existing(committed, project_id, r.team_id)
           next == IF existing # 0
                   THEN [apps EXCEPT ![existing].score = r.final_score]
                   ELSE Append(apps, [project_id |-> project_id, team_id |-> r.team_id,
                                      score |-> r.final_score])
       IN upsert_results(committed, next, project_id, Tail(results))

save_evaluation(project_id) ==
  /\ Ready(Loop)
  /\ evaluations.calls < MaxSaves
  /\ \E results \in {rank_teams(project_id)} :
        /\ applications' = upsert_results(applications, applications, project_id, results)
        /\ evaluations' =
             [calls |-> evaluations.calls + 1,
              project_id |-> project_id,
              saved |-> [k \in 1..Len(results) |->
                           [team_id |-> results[k].team_id, score |-> results[k].final_score]],
              rescored |-> {results[k].team_id : k \in
                             {j \in 1..Len(results) :
                                \E a \in 1..Len(applications) :
                                  /\ applications[a].project_id = project_id
                                  /\ applications[a].team_id = results[j].team_id
                                  /\ applications[a].score # results[j].final_score}},
              abandoned |-> 0]
  /\ UNCHANGED <<env, model, index_file, employees, projects, teams,
                 proc, adds, returned, last_get>>

\* a session that flushes and commits each record as the loop handles it
rollback_flushed(committed, pending) == pending

\* The session of a request that ends before db.commit() (the process dies or
\* the loop raises) is closed by get_db_for_hr: with autoflush off nothing of
\* it was sent to the database, and the committed rows stay as they were.
rollback(committed, pending) == committed

\* save_evaluation ending after n of the results, before its db.commit()
save_evaluation_abandoned(project_id) ==
  /\ Ready(Loop)
  /\ \E results \in {rank_teams(project_id)} : \E n \in 1..Len(results) :
        /\ applications' =
             rollback(applications,
                      upsert_results(applications, applications, project_id,
                                     SubSeq(results, 1, n)))
        /\ evaluations' = [evaluations EXCEPT !.abandoned = n]
  /\ UNCHANGED <<env, model, index_file, employees, projects, teams,
                 proc, adds, returned, last_get>>

\* --------------------------- services/team_service.py, employee ranking
\* get_individual_skill_gap comparing the skills as they are written
get_individual_skill_gap_case_sensitive(employee_id, project_id) ==
  IF employee_id \notin DOMAIN employees \/ project_id \notin DOMAIN projects THEN <<>>
  ELSE LET emp_skills == Range(employees[employee_id].skills)
           req_skills == projects[project_id].required_skills
       IN <<[missing_skills |-> SelectSeq(req_skills, LAMBDA x : x \notin emp_skills),
             covered_skills |-> SelectSeq(req_skills, LAMBDA x : x \in emp_skills)]>>

\* <<>> when it raises ValueError, else <<the lists of the dict>>
get_individual_skill_gap(employee_id, project_id) ==
  IF employee_id \notin DOMAIN employees \/ project_id \notin DOMAIN projects THEN <<>>
  ELSE LET emp_skills == {lower(x) : x \in Range(employees[employee_id].skills)}
           req_skills == projects[project_id].required_skills
       IN <<[missing_skills |-> SelectSeq(req_skills, LAMBDA x : lower(x) \notin emp_skills),
             covered_skills |-> SelectSeq(req_skills, LAMBDA x : lower(x) \in emp_skills)]>>

\* results[:5]
Top5(results) == SubSeq(results, 1, IF Len(results) < 5 THEN Len(results) ELSE 5)

\* results.sort(key=score, reverse=True): stable, descending
RECURSIVE InsertByScore(_, _)
InsertByScore(sorted, r) ==
  IF sorted = <<>> THEN <<r>>
  ELSE IF Head(sorted).score >= r.score
       THEN <<Head(sorted)>> \o InsertByScore(Tail(sorted), r)
       ELSE <<r>> \o sorted

RECURSIVE SortByScore(_)
SortByScore(results) ==
  IF results = <<>> THEN <<>>
  ELSE InsertByScore(SortByScore(SubSeq(results, 1, Len(results) - 1)), results[Len(results)])

\* the first five teams as they are enumerated, scored but not ranked
get_top_5_teams_unsorted(project_id) ==
  LET all_teams == SortedSeq(DOMAIN teams)
  IN Top5(Concat([k \in 1..Len(all_teams) |-> calculate_team_score(all_teams[k], project_id)]))

\* matching_service.get_top_5_teams
get_top_5_teams(project_id) == Top5(rank_teams(project_id))

\* matching_service.get_top_5_projects_for_employee, for an employee of the
\* table (it raises ValueError for another id)
get_top_5_projects_for_employee(employee_id) ==
  LET employee == employees[employee_id]
  IN IF IsNone(employee.embedding_index) THEN <<>>
     ELSE LET emp_vec == get_employee_vector(employee.embedding_index)
          IN IF emp_vec = <<>> THEN <<>>
             ELSE LET all_projects == SortedSeq(DOMAIN projects)
                      entry(id) ==
                        LET project == projects[id]
                        IN IF IsNone(project.embedding_reference) THEN <<>>
                           ELSE LET proj_vec == get_project_vector(project.embedding_reference)
                                IN IF proj_vec = <<>> THEN <<>>
                                   ELSE LET sim == compute_cosine_similarity(emp_vec[1], proj_vec[1])
                                            emp_skills_lower ==
                                              {lower(x) : x \in Range(employee.skills)}
                                            missing ==
                                              SelectSeq(project.required_skills,
                                                        LAMBDA x : lower(x) \notin emp_skills_lower)
                                        IN <<[project_id |-> id,
                                              title |-> project.title,
                                              required_skills |-> project.required_skills,
                                              score |-> round4(sim),
                                              match_percentage |-> RoundDiv(sim * 100, Micro \div 100),
                                              skill_gap |-> missing]>>
                  IN Top5(SortByScore(Concat([k \in 1..Len(all_projects) |->
                                               entry(all_projects[k])])))

\* ------------------------------------------------- specifications
ProjectIds == 1..MaxProjects
EmployeeIds == 1..MaxEmployees
RowArgs == {NONE} \cup {Some(n) : n \in -1..MaxAdds}

\* the requests of the concurrent specification
SignupRequests == EmployeeCreate({"Asha"}, {<<"Python">>}, {4}, {Some(1)})
ProjectRequests == ProjectCreate({"Portal"}, {<<"Python", "React">>}, {2})

\* schemas.EmployeeUpdate, the fields that are set
UpdateRequests == {[skills |-> <<"React">>, experience |-> 7]}

\* the thread pool hands a request to its first idle worker
FirstIdle(t) == \A u \in Threads : u < t => proc[u].pc # "idle"

ThreadStep(t) ==
  \/ FirstIdle(t) /\ \E payload \in SignupRequests : signup(t, payload)
  \/ update_vector_load(t)
  \/ get_model(t)
  \/ update_vector_save(t)
  \/ update_vector_commit(t)

LoopStep ==
  \/ \E current \in EmployeeIds : update_embedding(current)
  \/ \E current \in EmployeeIds, payload \in UpdateRequests : update_me(current, payload)
  \/ update_me_refresh
  \/ \E payload \in ProjectRequests : create_project(payload)
  \/ \E project_id \in ProjectIds, payload \in ProjectRequests : update_project(project_id, payload)
  \/ \E project_id \in ProjectIds : delete_project(project_id)
  \/ \E project_id \in ProjectIds : embed_project(project_id)
  \/ \E path \in IndexPaths, arg \in RowArgs : get_vector_load(path, arg)
  \/ get_vector_reconstruct
  \/ get_vector_return
  \/ update_vector_load(Loop)
  \/ get_model(Loop)
  \/ update_vector_save(Loop)
  \/ update_vector_commit(Loop)

Next ==
  \/ \E t \in Threads : ThreadStep(t)
  \/ LoopStep
  \/ Crash

Spec == Init /\ [][Next]_vars

\* The sequential specification: one request is handled at a time, as by a
\* single-threaded caller; worker thread 1 runs the plain `def` handlers.
Quiet == \A p \in Procs : Ready(p)

ScoreSignupRequests ==
  EmployeeCreate({"Asha"}, {<<"Python">>, <<"python", "React">>}, {4}, {Some(1)})
\* TeamCreate.team_lead_id: no lead, or the first employee
TeamLeadRequests == {NONE, Some(1)}

ScoreProjectRequests ==
  {[title |-> "Portal", required_skills |-> <<"Python", "React">>, required_experience |-> 2],
   [title |-> "Ledger", required_skills |-> <<>>, required_experience |-> 0]}

MayAdd == Quiet /\ adds < MaxSequentialAdds

ScoreNext ==
  \/ MayAdd /\ \E payload \in ScoreSignupRequests : signup(1, payload)
  \/ MayAdd /\ \E team_code \in TeamCodes : register_teamlead(1, "Ravi", team_code)
  \/ MayAdd /\ \E team_code \in TeamCodes : register_employee(1, "Asha", team_code)
  \/ MayAdd /\ \E current \in EmployeeIds : update_embedding(current)
  \/ Quiet /\ \E current \in EmployeeIds, payload \in UpdateRequests :
                update_me(current, payload)
  \/ update_me_refresh
  \/ Quiet /\ \E team_lead_id \in TeamLeadRequests : create_team(team_lead_id)
  \/ MayAdd /\ \E payload \in ScoreProjectRequests : create_project(payload)
  \/ MayAdd /\ \E project_id \in ProjectIds, payload \in ScoreProjectRequests :
                 update_project(project_id, payload)
  \/ Quiet /\ \E project_id \in ProjectIds : delete_project(project_id)
  \/ MayAdd /\ \E project_id \in ProjectIds : embed_project(project_id)
  \/ \E project_id \in ProjectIds : save_evaluation(project_id)
  \/ \E p \in {Loop, 1} : update_vector_load(p)
  \/ \E p \in {Loop, 1} : get_model(p)
  \/ \E p \in {Loop, 1} : update_vector_save(p)
  \/ \E p \in {Loop, 1} : update_vector_commit(p)

ScoreSpec == Init /\ [][ScoreNext]_vars

\* EMPLOYEE_INDEX_PATH and PROJECT_INDEX_PATH are relative paths: a server
\* started in another working directory, or after the file was removed, finds
\* no file and _load_or_create_index starts a fresh index, while the rows of
\* the database keep their references.
index_file_lost(path) ==
  /\ Quiet
  /\ faiss_available
  /\ index_file[path] # <<>>
  /\ index_file' = [index_file EXCEPT ![path] = <<>>]
  /\ UNCHANGED <<env, model, db, proc, adds, returned, last_get, evaluations>>

\* Sequential requests with faults: a save that ends before its commit, an
\* index file that is gone at the next load.  A team without a lead is created
\* as the first team only; the other teams come with their lead.
\* EmployeeCreate.experience is a float without a lower bound
FaultSignupRequests == EmployeeCreate({"Asha"}, {<<"Python">>}, {4, -4}, {Some(1)})

\* two projects that ask for what the signed-up employee offers
FaultProjectRequests ==
  {[title |-> "Ledger", required_skills |-> <<"Python">>, required_experience |-> 4],
   [title |-> "Ledger", required_skills |-> <<"Python", "python">>, required_experience |-> 4]}

\* the saves that return, in a run with faults
MaxFaultSaves == 1

FaultNext ==
  \/ MayAdd /\ \E payload \in FaultSignupRequests : signup(1, payload)
  \/ MayAdd /\ register_teamlead(1, "Ravi", "ALPHA01")
  \/ Quiet /\ teams = <<>> /\ create_team(NONE)
  \/ MayAdd /\ \E payload \in FaultProjectRequests : create_project(payload)
  \/ evaluations.calls < MaxFaultSaves /\ \E project_id \in ProjectIds : save_evaluation(project_id)
  \/ \E project_id \in ProjectIds : save_evaluation_abandoned(project_id)
  \/ \E path \in IndexPaths : index_file_lost(path)
  \/ \E p \in {Loop, 1} : update_vector_load(p)
  \/ \E p \in {Loop, 1} : get_model(p)
  \/ \E p \in {Loop, 1} : update_vector_save(p)
  \/ \E p \in {Loop, 1} : update_vector_commit(p)

FaultSpec == Init /\ [][FaultNext]_vars

\* The ranking specification: one request at a time, teams without a lead,
\* more teams than get_top_5_teams returns, and the employees and projects of
\* the scoring scenarios.
MaxRankedTeams == 6

RankSignupRequests ==
  {[name |-> "Asha", skills |-> <<"python", "java">>, experience |-> 2, team_id |-> Some(1)],
   [name |-> "Asha", skills |-> <<"Python">>, experience |-> 10, team_id |-> Some(2)],
   [name |-> "Asha", skills |-> <<"Python">>, experience |-> 4, team_id |-> Some(1)],
   [name |-> "Asha", skills |-> <<>>, experience |-> 2, team_id |-> Some(1)]}

RankProjectRequests ==
  {[title |-> "Portal", required_skills |-> <<"Python", "React">>, required_experience |-> 4],
   [title |-> "Ledger", required_skills |-> <<>>, required_experience |-> 0],
   [title |-> "Ledger", required_skills |-> <<"Python", "Python">>, required_experience |-> 4]}

RankNext ==
  \/ Quiet /\ \E payload \in RankSignupRequests : signup(1, payload)
  \/ Quiet /\ create_team_within(MaxRankedTeams, NONE)
  \/ Quiet /\ \E payload \in RankProjectRequests : create_project(payload)
  \/ \E p \in {Loop, 1} : update_vector_load(p)
  \/ \E p \in {Loop, 1} : get_model(p)
  \/ \E p \in {Loop, 1} : update_vector_save(p)
  \/ \E p \in {Loop, 1} : update_vector_commit(p)

RankSpec == Init /\ [][RankNext]_vars

\* The evaluation specification: one request at a time, a team with its lead
\* or a team without members, the projects, and the saves of HR.
SaveNext ==
  \/ MayAdd /\ register_teamlead(1, "Ravi", "ALPHA01")
  \/ Quiet /\ teams = <<>> /\ create_team(NONE)
  \/ MayAdd /\ \E payload \in FaultProjectRequests : create_project(payload)
  \/ \E project_id \in ProjectIds : save_evaluation(project_id)
  \/ \E p \in {Loop, 1} : update_vector_load(p)
  \/ \E p \in {Loop, 1} : get_model(p)
  \/ \E p \in {Loop, 1} : update_vector_save(p)
  \/ \E p \in {Loop, 1} : update_vector_commit(p)

SaveSpec == Init /\ [][SaveNext]_vars

\* ------------------------------------------------------ properties
NoDuplicates(s) == \A i, j \in DOMAIN s : i # j => s[i] # s[j]
IsPrefix(s, t) == Len(s) <= Len(t) /\ \A i \in DOMAIN s : s[i] = t[i]

\* the references stored in the rows of the table of an index
References(path) ==
  IF path = EMPLOYEE_INDEX_PATH
  THEN {employees[id].embedding_index : id \in DOMAIN employees} \ {NONE}
  ELSE {projects[id].embedding_reference : id \in DOMAIN projects} \ {NONE}

\* C1: with faiss available, no two adds on one index, however their steps
\* interleave, return the same row id.
C1_NoDuplicateRowIds ==
  faiss_available => \A path \in IndexPaths : NoDuplicates(returned[path])

C5_OutOfRangeIsAbsent ==
  (faiss_available /\ proc[Loop].pc = "got") =>
    LET arg == last_get.arg
        in_range == ~IsNone(arg) /\ Val(arg) >= 0 /\ Val(arg) < Len(proc[Loop].index)
    IN ~in_range => last_get.result = <<>>

\* C6: with faiss available, every reference stored in a row of a table is a
\* row of the index on disk, in every state, those after a crash included.
C6_ReferencesPersisted ==
  faiss_available =>
    \A path \in IndexPaths : \A ref \in References(path) :
      Val(ref) >= 0 /\ Val(ref) < Len(index_file[path])

\* C7: with faiss available, no step shrinks an index on disk or changes one
\* of its rows, and no row id is returned a second time.
C7_AppendOnly ==
  [][faiss_available =>
       \A path \in IndexPaths :
         /\ IsPrefix(index_file[path], index_file'[path])
         /\ NoDuplicates(returned'[path])]_vars

\* C8: the two indices are independent.  An add takes its row id from the size
\* of its own index alone, writes its own file alone, and its row id goes to
\* the table and the callers of its own index alone; nothing else writes a file.
C8_IndicesIndependent ==
  [][/\ \A p \in Procs : \A path \in IndexPaths : \A other \in IndexPaths \ {path} :
          proc[p].path = path =>
            /\ (proc[p].pc = "load" /\ proc'[p].pc = "save")
                 => proc'[p].row_idx = Len(index_file[path])
            /\ (proc[p].pc = "save" /\ proc'[p].pc = "commit")
                 => /\ index_file'[other] = index_file[other]
                    /\ index_file'[path] = proc[p].index
            /\ (proc[p].pc \in {"load", "commit"} /\ proc'[p].pc = "idle")
                 => /\ returned'[other] = returned[other]
                    /\ References(other)' \subseteq References(other)
     /\ \A path \in IndexPaths :
          index_file'[path] # index_file[path]
            => \E p \in Procs : /\ proc[p].pc = "save" /\ proc[p].path = path
                                /\ index_file'[path] = proc[p].index]_vars

C8_Witness ==
  /\ Len(index_file[EMPLOYEE_INDEX_PATH]) = 2
  /\ Len(index_file[PROJECT_INDEX_PATH]) = 1
  /\ returned[EMPLOYEE_INDEX_PATH] = <<0, 1>>
  /\ returned[PROJECT_INDEX_PATH] = <<0>>

\* C10: an add, from the read of the size of the index up to the write of the
\* file, overlaps no other add and no lookup on the same index.
C10_MutualExclusion ==
  \A p, q \in Procs :
    (p # q /\ proc[p].pc = "save")
      => ~(proc[q].pc \in {"save", "get"} /\ proc[q].path = proc[p].path)

\* the records of table applications for a team and a project
Records(team_id, project_id) ==
  {a \in 1..Len(applications) :
     applications[a].team_id = team_id /\ applications[a].project_id = project_id}

\* C2: after any sequence of evaluation saves, among the other requests, the
\* table holds at most one score record for a team and a project.
C2_OneRecordPerPair ==
  \A a, b \in 1..Len(applications) :
    (/\ applications[a].team_id = applications[b].team_id
     /\ applications[a].project_id = applications[b].project_id) => a = b

C2_Witness == evaluations.rescored # {} /\ Len(applications) >= 2

\* C3: after a save, every team it saved has exactly one record with the
\* project, holding the score of this save: where the record held another
\* score before (evaluations.rescored), the second score has replaced it.
C3_SecondScoreKept ==
  \A k \in 1..Len(evaluations.saved) :
    LET recs == Records(evaluations.saved[k].team_id, evaluations.project_id)
    IN /\ Cardinality(recs) = 1
       /\ \A a \in recs : applications[a].score = evaluations.saved[k].score

C3_Witness ==
  \E k \in 1..Len(evaluations.saved) :
    /\ evaluations.saved[k].team_id \in evaluations.rescored
    /\ Cardinality(Records(evaluations.saved[k].team_id, evaluations.project_id)) = 1

\* what C9 asks of a state without faiss, once the module is imported
DegradedBehaviour ==
  /\ \A p \in Procs : proc[p].pc \in {"idle", "load"}
  /\ \A path \in IndexPaths :
       /\ returned[path] = [k \in 1..Len(returned[path]) |-> 0]
       /\ References(path) \subseteq {Some(0)}
       /\ \A arg \in RowArgs :
            get_vector_results(load_or_create_index(path), arg) = {<<ZeroVec>>}
  /\ adds = Len(returned[EMPLOYEE_INDEX_PATH]) + Len(returned[PROJECT_INDEX_PATH])
              + Cardinality({p \in Procs : proc[p].pc = "load"})
  /\ \A team_id \in DOMAIN teams : \A project_id \in DOMAIN projects :
       LET score == calculate_team_score(team_id, project_id)
       IN score # <<>> /\ score[1].embedding_similarity = 0

\* C9: without faiss the service is there, every add succeeds (and returns 0),
\* every lookup returns the zero vector, and every team scores an embedding
\* similarity of 0.0 against every project without raising.
C9_DegradedMode == ~faiss_available => (imported /\ DegradedBehaviour)

\* C11: a team whose lead is set has that lead among its members: the lead is
\* an employee and the lead's team_id is the team's id.
C11_LeadIsMember ==
  \A team_id \in DOMAIN teams :
    ~IsNone(teams[team_id].team_lead_id) =>
      /\ Val(teams[team_id].team_lead_id) \in DOMAIN employees
      /\ employees[Val(teams[team_id].team_lead_id)].team_id = Some(team_id)

\* C12: with faiss available, an update request (update_me, update_project)
\* that is served ends with the entity holding the attributes of the request,
\* a row appended to the index for it, and the reference of the entity naming
\* that row, which is the vector of the entity's attributes.
C12_UpdateReembeds ==
  [][faiss_available =>
       \A p \in Procs : \A path \in IndexPaths : \A id \in 1..(MaxEmployees + MaxProjects) :
         (/\ proc[p].request # <<>> /\ proc[p].path = path /\ proc[p].id = id
          /\ proc'[p].pc = "idle")
           => /\ Exists(path, id)'
              /\ \A f \in DOMAIN proc[p].request[1] : Entity(path, id)'[f] = proc[p].request[1][f]
              /\ References(path)' # {}
              /\ IF path = EMPLOYEE_INDEX_PATH
                 THEN /\ employees'[id].embedding_index = Some(Len(index_file'[path]) - 1)
                      /\ index_file'[path][Len(index_file'[path])] = Embedding(path, id)'
                 ELSE /\ projects'[id].embedding_reference = Some(Len(index_file'[path]) - 1)
                      /\ index_file'[path][Len(index_file'[path])] = Embedding(path, id)']_vars

\* C13: an id that does not resolve is answered with a failure.  Scoring a
\* team or a project that does not exist raises, and a save_evaluation call
\* returns a result (here: is recorded in evaluations) for a known project only.
C13_UnknownIdFails ==
  [][/\ \A team_id \in TeamIds : \A project_id \in ProjectIds :
          (team_id \notin DOMAIN teams \/ project_id \notin DOMAIN projects)
            => calculate_team_score(team_id, project_id) = <<>>
     /\ evaluations'.calls # evaluations.calls
          => evaluations'.project_id \in DOMAIN projects]_vars

\* C14: rank_teams returns a list whatever the scoring of a team does: the
\* teams whose scoring raised are left out, every team whose scoring succeeded
\* is in the list once, with the record calculate_team_score returned for it.
C14_RankSkipsRaisingTeams ==
  \A project_id \in ProjectIds : \A results \in {rank_teams(project_id)} :
    LET succeeded == {team_id \in DOMAIN teams : calculate_team_score(team_id, project_id) # <<>>}
    IN /\ {results[k].team_id : k \in DOMAIN results} = succeeded
       /\ Len(results) = Cardinality(succeeded)
       /\ \A k \in DOMAIN results :
            <<results[k]>> = calculate_team_score(results[k].team_id, project_id)

\* teams exist, scoring them raises for one project id (unknown) and rank_teams
\* returns without them, and succeeds for another, where they are all ranked
C14_Witness ==
  /\ DOMAIN teams # {}
  /\ \E project_id \in ProjectIds \ DOMAIN projects :
       /\ \A team_id \in DOMAIN teams : calculate_team_score(team_id, project_id) = <<>>
       /\ rank_teams(project_id) = <<>>
  /\ \E project_id \in DOMAIN projects :
       Len(rank_teams(project_id)) = Cardinality(DOMAIN teams)

\* C15: the committed records change only in the step of a save_evaluation
\* call that returns, and that step holds every upsert of the call (one record
\* per result, with its score); scoring and ranking leave every table and
\* both index files as they are, and a save that ends before its commit,
\* after any number of its results, leaves the records as they were.
C15_SaveIsAtomic ==
  [][/\ applications' # applications
          => /\ evaluations'.calls = evaluations.calls + 1
             /\ applications' =
                  upsert_results(applications, applications, evaluations'.project_id,
                                 rank_teams(evaluations'.project_id))
     /\ evaluations'.abandoned # evaluations.abandoned /\ evaluations'.abandoned # 0
          => applications' = applications]_vars

\* a save was abandoned with results in its session while the project has
\* teams to record and records of an earlier save exist
C15_Witness ==
  /\ evaluations.abandoned >= 1
  /\ evaluations.calls >= 1
  /\ applications # <<>>
  /\ \E project_id \in DOMAIN projects :
       /\ rank_teams(project_id) # <<>>
       /\ upsert_results(applications, applications, project_id, rank_teams(project_id))
            # applications

\* C16: for a team and a project that exist, when the project has no
\* embedding reference, or its reference does not resolve to a row of the
\* project index, or no member of the team has a reference that resolves,
\* calculate_team_score returns a record (it does not raise) and the
\* embedding similarity, as computed and as reported, is 0.
NoReference(project_id) == IsNone(projects[project_id].embedding_reference)

UnresolvedReference(project_id) ==
  /\ ~NoReference(project_id)
  /\ get_project_vector(projects[project_id].embedding_reference) = <<>>

NoMemberVector(team_id) ==
  \A m \in Range(Members(team_id)) :
    \/ IsNone(employees[m].embedding_index)
    \/ get_employee_vector(employees[m].embedding_index) = <<>>

C16_MissingVectorScoresZero ==
  \A team_id \in DOMAIN teams : \A project_id \in DOMAIN projects :
    (NoReference(project_id) \/ UnresolvedReference(project_id) \/ NoMemberVector(team_id))
      => /\ embedding_similarity(team_id, projects[project_id]) = 0
         /\ calculate_team_score(team_id, project_id) # <<>>
         /\ calculate_team_score(team_id, project_id)[1].embedding_similarity = 0

\* the three cases in turn, each with the other side in order: a project
\* whose reference no longer resolves scored against a team with a vector ...
C16_Witness ==
  \E team_id \in DOMAIN teams : \E project_id \in DOMAIN projects :
    /\ UnresolvedReference(project_id)
    /\ ~NoMemberVector(team_id)
    /\ calculate_team_score(team_id, project_id) # <<>>

\* ... a project without a reference against such a team ...
C16_WitnessNoReference ==
  \E team_id \in DOMAIN teams : \E project_id \in DOMAIN projects :
    NoReference(project_id) /\ ~NoMemberVector(team_id)

\* ... and a team with members, none with a vector, against an embedded project
C16_WitnessNoMemberVector ==
  \E team_id \in DOMAIN teams : \E project_id \in DOMAIN projects :
    /\ Members(team_id) # <<>>
    /\ NoMemberVector(team_id)
    /\ ~NoReference(project_id) /\ ~UnresolvedReference(project_id)

\* C17: the team vector is the mean of the vectors of the members whose
\* reference resolves, the member whose id is the team's lead id weighing 1.5
\* and every other one 1.0 (3 and 2 halves), renormalised; the other members
\* add nothing to the sum nor to the total weight; there is no team vector
\* when the team does not exist, has no members, or no member has a vector.
Usable(team_id) ==
  {m \in Range(Members(team_id)) :
     /\ ~IsNone(employees[m].embedding_index)
     /\ get_employee_vector(employees[m].embedding_index) # <<>>}

MemberVector(m) == get_employee_vector(employees[m].embedding_index)[1]

C17_TeamVectorIsWeightedMean ==
  \A team_id \in TeamIds :
    IF team_id \notin DOMAIN teams THEN get_team_embedding(team_id) = <<>>
    ELSE LET usable == SortedSeq(Usable(team_id))
             halves(m) == IF teams[team_id].team_lead_id = Some(m) THEN 3 ELSE 2
             total == SumSeq([k \in 1..Len(usable) |-> halves(usable[k])])
             mean == [i \in Axes |->
                        RoundDiv(SumSeq([k \in 1..Len(usable) |->
                                           halves(usable[k]) * MemberVector(usable[k])[i]]),
                                 total)]
         IN IF Members(team_id) = <<>> \/ total = 0
            THEN get_team_embedding(team_id) = <<>>
            ELSE get_team_embedding(team_id) = <<normalize(mean)>>

\* a team whose lead and another member both have a vector, the two vectors
\* differ, and the weights show: the team vector is not that of the plain mean
C17_Witness ==
  \E team_id \in DOMAIN teams : \E lead, other \in Usable(team_id) :
    /\ teams[team_id].team_lead_id = Some(lead)
    /\ other # lead
    /\ MemberVector(lead) # MemberVector(other)
    /\ get_team_embedding(team_id) #
         <<normalize([i \in Axes |->
                        RoundDiv(MemberVector(lead)[i] + MemberVector(other)[i], 2)])>>

\* a team with members that all have a reference, none of which resolves
C17_WitnessUnresolved ==
  \E team_id \in DOMAIN teams :
    /\ Members(team_id) # <<>>
    /\ \A m \in Range(Members(team_id)) : ~IsNone(employees[m].embedding_index)
    /\ Usable(team_id) = {}
    /\ get_team_embedding(team_id) = <<>>

\* C18: for every team and project that exist, the four component scores and
\* the final score that calculate_team_score returns lie in [0, 1] (0 to
\* ScoreScale ten-thousandths).
C18_ScoresInUnitInterval ==
  \A team_id \in DOMAIN teams : \A project_id \in DOMAIN projects :
    \A r \in Range(calculate_team_score(team_id, project_id)) :
      /\ r.embedding_similarity \in 0..ScoreScale
      /\ r.skill_coverage \in 0..ScoreScale
      /\ r.experience_match \in 0..ScoreScale
      /\ r.team_balance \in 0..ScoreScale
      /\ r.final_score \in 0..ScoreScale

\* C19: the final score of a record is 0.4 * embedding similarity + 0.3 *
\* skill coverage + 0.2 * experience match + 0.1 * team balance taken on the
\* unrounded components (millionths) and rounded to four decimals afterwards;
\* when the four components are 1.0 the final score is 1.0.
Components(team_id, project_id) ==
  LET members == Members(team_id)
      project == projects[project_id]
      avg_exp == IF members # <<>>
                 THEN RoundDiv(SumSeq([k \in 1..Len(members) |->
                                         employees[members[k]].experience]) * Micro,
                               Len(members))
                 ELSE 0
  IN [embedding_similarity |-> embedding_similarity(team_id, project),
      skill_coverage |->
        skill_coverage(project.required_skills,
                       Concat([k \in 1..Len(members) |-> employees[members[k]].skills])),
      experience_match |-> experience_match(avg_exp, project.required_experience),
      team_balance |-> team_balance(members)]

C19_FinalIsWeightedSum ==
  \A team_id \in DOMAIN teams : \A project_id \in DOMAIN projects :
    \A c \in {Components(team_id, project_id)} :
      \A r \in Range(calculate_team_score(team_id, project_id)) :
        /\ r.final_score =
             round4(RoundDiv(4 * c.embedding_similarity + 3 * c.skill_coverage
                             + 2 * c.experience_match + 1 * c.team_balance, 10))
        /\ (/\ c.embedding_similarity = Micro /\ c.skill_coverage = Micro
            /\ c.experience_match = Micro /\ c.team_balance = Micro)
             => r.final_score = ScoreScale

\* a record whose four components are all 1.0
C19_WitnessAllOnes ==
  \E team_id \in DOMAIN teams : \E project_id \in DOMAIN projects :
    \A c \in {Components(team_id, project_id)} :
      /\ c.embedding_similarity = Micro /\ c.skill_coverage = Micro
      /\ c.experience_match = Micro /\ c.team_balance = Micro
      /\ calculate_team_score(team_id, project_id)[1].final_score = ScoreScale

\* C20: every vector in an index file, every vector of an index about to be
\* written, and every vector a lookup returns has L2 length 1 (VecScale
\* thousandths, to the nearest thousandth).
C20_UnitVectors ==
  /\ \A path \in IndexPaths : \A k \in DOMAIN index_file[path] :
       Norm(index_file[path][k]) = VecScale
  /\ \A p \in Procs : \A k \in DOMAIN proc[p].index :
       Norm(proc[p].index[k]) = VecScale
  /\ last_get.result # <<>> => Norm(last_get.result[1]) = VecScale

\* ------------------------------------------------------------------
\* C21: rank_teams returns the score records ordered by final score,
\* descending, and two teams of equal final score stay in the order in which
\* the teams were enumerated (by team id).
C21_RankedDescendingStable ==
  \A project_id \in DOMAIN projects : \A results \in {rank_teams(project_id)} :
    \A i, j \in 1..Len(results) :
      i < j => \/ results[i].final_score > results[j].final_score
               \/ /\ results[i].final_score = results[j].final_score
                  /\ results[i].team_id < results[j].team_id

\* a ranking in which two teams tie and a team of a larger id comes first
C21_Witness ==
  \E project_id \in DOMAIN projects : \E results \in {rank_teams(project_id)} :
    /\ \E i, j \in 1..Len(results) :
         i < j /\ results[i].final_score = results[j].final_score
    /\ \E i, j \in 1..Len(results) :
         i < j /\ results[i].team_id > results[j].team_id

\* the skills the members of a team list, lower-cased
TeamSkillsLower(team_id) ==
  UNION {{lower(x) : x \in Range(employees[e].skills)} : e \in Range(Members(team_id))}

TeamExperience(team_id) ==
  SumSeq([k \in 1..Len(Members(team_id)) |-> employees[Members(team_id)[k]].experience])

\* C23: the experience match of a score record is 1.0 when the project
\* requires no experience, else min(avg / required, 1.0), where avg is the
\* arithmetic mean of the members' experience, 0 for a team without members.
C23_ExperienceMatch ==
  \A team_id \in DOMAIN teams, project_id \in DOMAIN projects :
    \A rec \in {calculate_team_score(team_id, project_id)[1]} :
      LET required == projects[project_id].required_experience
          n == Len(Members(team_id))
          total == TeamExperience(team_id)
      IN rec.experience_match =
           IF required <= 0 THEN ScoreScale
           ELSE IF n = 0 THEN 0
           ELSE IF total >= n * required THEN ScoreScale
           ELSE RoundDiv(total * ScoreScale, n * required)

\* against a project requiring 4 years: a team of mean 2 scores 0.5, a team
\* of mean 10 scores 1.0, a team without members scores 0
C23_Witness ==
  \E project_id \in DOMAIN projects :
    /\ projects[project_id].required_experience = 4
    /\ \E team_id \in DOMAIN teams :
         /\ Members(team_id) # <<>>
         /\ TeamExperience(team_id) = 2 * Len(Members(team_id))
         /\ calculate_team_score(team_id, project_id)[1].experience_match = ScoreScale \div 2
    /\ \E team_id \in DOMAIN teams :
         /\ Members(team_id) # <<>>
         /\ TeamExperience(team_id) = 10 * Len(Members(team_id))
         /\ calculate_team_score(team_id, project_id)[1].experience_match = ScoreScale
    /\ \E team_id \in DOMAIN teams :
         /\ Members(team_id) = <<>>
         /\ calculate_team_score(team_id, project_id)[1].experience_match = 0

\* two members of 2 years each: the mean is 2, not their sum, and the match
\* is 0.5; members of 2 and 4 years: the mean is 3 and the match 0.75
C23_WitnessMean ==
  \E team_id \in DOMAIN teams, project_id \in DOMAIN projects :
    /\ Len(Members(team_id)) = 2
    /\ TeamExperience(team_id) \in {4, 6}
    /\ projects[project_id].required_experience = 4
    /\ calculate_team_score(team_id, project_id)[1].experience_match =
         IF TeamExperience(team_id) = 4 THEN ScoreScale \div 2 ELSE 3 * (ScoreScale \div 4)

\* the number of skills the members of a team list, repetitions included
SkillMentions(team_id) ==
  SumSeq([k \in 1..Len(Members(team_id)) |-> Len(employees[Members(team_id)[k]].skills)])

\* C24: the team balance of a score record is the number of distinct skills
\* of the team, compared case-insensitively, divided by the number of skill
\* mentions, at most 1.0; it is 0.5 for a team without members or without
\* skills.
C24_TeamBalance ==
  \A team_id \in DOMAIN teams, project_id \in DOMAIN projects :
    \A rec \in {calculate_team_score(team_id, project_id)[1]} :
      LET mentions == SkillMentions(team_id)
          distinct == Cardinality(TeamSkillsLower(team_id))
      IN rec.team_balance =
           IF mentions = 0 THEN ScoreScale \div 2
           ELSE IF distinct >= mentions THEN ScoreScale
           ELSE RoundDiv(distinct * ScoreScale, mentions)

\* two members who each list the same single skill: 1/2
C24_Witness ==
  \E team_id \in DOMAIN teams, project_id \in DOMAIN projects :
    /\ Len(Members(team_id)) = 2
    /\ \A k \in 1..2 : employees[Members(team_id)[k]].skills = <<"Python">>
    /\ calculate_team_score(team_id, project_id)[1].team_balance = ScoreScale \div 2

\* a team without members, and a team whose members list no skill: 0.5
C24_WitnessFallback ==
  \E project_id \in DOMAIN projects :
    /\ \E team_id \in DOMAIN teams :
         /\ Members(team_id) = <<>>
         /\ calculate_team_score(team_id, project_id)[1].team_balance = ScoreScale \div 2
    /\ \E team_id \in DOMAIN teams :
         /\ Members(team_id) # <<>>
         /\ SkillMentions(team_id) = 0
         /\ calculate_team_score(team_id, project_id)[1].team_balance = ScoreScale \div 2

\* members listing "python", "java" and "Python": two distinct skills in three
\* mentions
C24_WitnessCaseInsensitive ==
  \E team_id \in DOMAIN teams, project_id \in DOMAIN projects :
    /\ SkillMentions(team_id) = 3
    /\ TeamSkillsLower(team_id) = {"python", "java"}
    /\ calculate_team_score(team_id, project_id)[1].team_balance = 6667

\* C25: the skill gap of an employee against a project is the list of the
\* project's required skills, in the listed order and as they are written,
\* whose lower-cased form is not among the employee's lower-cased skills; the
\* employee ranking and get_individual_skill_gap return the same list, also
\* for a project without required skills.
C25_SkillGapAgrees ==
  \A employee_id \in DOMAIN employees :
    \A results \in {get_top_5_projects_for_employee(employee_id)} :
      \A k \in 1..Len(results) :
        LET required == projects[results[k].project_id].required_skills
            held(x) == \E j \in 1..Len(employees[employee_id].skills) :
                         lower(employees[employee_id].skills[j]) = lower(x)
        IN /\ results[k].skill_gap = SelectSeq(required, LAMBDA x : ~held(x))
           /\ get_individual_skill_gap(employee_id, results[k].project_id)[1].missing_skills
                = results[k].skill_gap

\* an employee listing ["python", "java"] ranked against a project requiring
\* ["Python", "React"], with gap ["React"], and against a project requiring
\* nothing, with an empty gap
C25_Witness ==
  \E employee_id \in DOMAIN employees :
    /\ employees[employee_id].skills = <<"python", "java">>
    /\ \E results \in {get_top_5_projects_for_employee(employee_id)} :
         /\ \E k \in 1..Len(results) :
              /\ results[k].required_skills = <<"Python", "React">>
              /\ results[k].skill_gap = <<"React">>
         /\ \E k \in 1..Len(results) :
              /\ results[k].required_skills = <<>>
              /\ results[k].skill_gap = <<>>

\* C26: when no request is in progress, the ranking of the projects for an
\* employee holds a similarity and a skill gap for each project of the
\* store, up to 5, ordered by similarity descending.
C26_EveryProjectRanked ==
  Quiet =>
    \A employee_id \in DOMAIN employees :
      \A results \in {get_top_5_projects_for_employee(employee_id)} :
        /\ Len(results) = IF Cardinality(DOMAIN projects) < 5
                          THEN Cardinality(DOMAIN projects) ELSE 5
        /\ \A i, j \in 1..Len(results) : i < j => results[i].score >= results[j].score

\* every add that was started has returned its row id
AllAddsCompleted ==
  /\ Quiet
  /\ adds = Len(returned[EMPLOYEE_INDEX_PATH]) + Len(returned[PROJECT_INDEX_PATH])

\* C27: with FAISS available, once every add that was started has completed,
\* however the adds interleaved, the size of each index is the number of the
\* adds completed on it, and the row id stored on an entity resolves to the
\* vector computed for that entity.
C27_NoLostAdd ==
  (faiss_available /\ AllAddsCompleted) =>
    \A path \in IndexPaths :
      /\ ntotal(index_file[path]) = Len(returned[path])
      /\ \A id \in (IF path = EMPLOYEE_INDEX_PATH THEN DOMAIN employees ELSE DOMAIN projects) :
           \A ref \in {IF path = EMPLOYEE_INDEX_PATH THEN employees[id].embedding_index
                                                     ELSE projects[id].embedding_reference} :
             ~IsNone(ref) =>
               /\ Val(ref) < ntotal(index_file[path])
               /\ index_file[path][Val(ref) + 1] = Embedding(path, id)

\* C28: the shared embedding model is built and assigned at most once per
\* process: no caller assigns a model when one is assigned already, also when
\* several callers reach _get_model together.
C28_ModelInitialisedOnce ==
  [][\A p \in Procs :
       (proc[p].pc = "model" /\ proc'[p].pc # "model" /\ model') => ~model]_vars

\* the score records of the projects other than project_id, in table order
RecordsOfOthers(apps, project_id) ==
  SelectSeq(apps, LAMBDA a : a.project_id # project_id)

\* C29: a save_evaluation for project P that commits changes only score
\* records of P: afterwards each team that rank_teams(P) returns has a record
\* for (team, P) with that team's final score, the records of every other
\* project are what they were, and no other table or index file has changed.
C29_SaveTouchesOnlyItsProject ==
  [][evaluations'.calls = evaluations.calls + 1 =>
       \A project_id \in {evaluations'.project_id} : \A results \in {rank_teams(project_id)} :
         /\ \A k \in 1..Len(results) :
              \E a \in 1..Len(applications') :
                /\ applications'[a].project_id = project_id
                /\ applications'[a].team_id = results[k].team_id
                /\ applications'[a].score = results[k].final_score
         /\ RecordsOfOthers(applications', project_id) = RecordsOfOthers(applications, project_id)
         /\ UNCHANGED <<employees, projects, teams, index_file>>]_vars

\* a save for one project has committed records while the table holds
\* records of another project
C29_Witness ==
  /\ evaluations.calls > 0
  /\ evaluations.saved # <<>>
  /\ \E a \in 1..Len(applications) : applications[a].project_id = evaluations.project_id
  /\ RecordsOfOthers(applications, evaluations.project_id) # <<>>

\* C30: the list of rank_teams holds each team at most once, and
\* get_top_5_teams returns the first min(5, length) entries of that list, in
\* the same order.
C30_TopFiveIsPrefix ==
  \A project_id \in DOMAIN projects :
    \A results \in {rank_teams(project_id)} : \A top \in {get_top_5_teams(project_id)} :
      /\ \A i, j \in 1..Len(results) : i # j => results[i].team_id # results[j].team_id
      /\ Len(top) = IF Len(results) < 5 THEN Len(results) ELSE 5
      /\ \A k \in 1..Len(top) : top[k] = results[k]

\* more than five teams are ranked, not in the order of their ids, and five
\* are returned
C30_Witness ==
  \E project_id \in DOMAIN projects :
    \E results \in {rank_teams(project_id)} :
      /\ Len(results) > 5
      /\ Len(get_top_5_teams(project_id)) = 5
      /\ \E i, j \in 1..5 : i < j /\ results[i].team_id > results[j].team_id
====
